---- MODULE Spec2Model ----
(***************************************************************************)
(* Data-integrity layer of the dev-events application: the Event and       *)
(* Booking mongoose schemas (setters, validators, pre-save hooks, unique   *)
(* indexes), the pure normalisation functions they call, and the store     *)
(* they write to.  Strings are sequences of one-character strings so that  *)
(* the conversions (lower-casing, trimming, regular expressions, parseInt, *)
(* Date parsing and formatting) are computed character by character.       *)
(***************************************************************************)
EXTENDS Integers, Sequences, FiniteSets, TLC

VARIABLES
  events,     \* Event collection: _id -> stored document
  bookings,   \* Booking collection: _id -> stored document
  eproc,      \* per request: an Event save in flight
  bproc,      \* per request: a Booking save in flight
  oid,        \* ObjectIds generated so far, per collection
  fin,        \* argument of the pure function under study
  fout,       \* its result
  db          \* the connection cache, its callers and the connection

vars == <<events, bookings, eproc, bproc, oid, fin, fout, db>>

(***************************************************************************)
(* Characters and the String methods the source uses.                      *)
(***************************************************************************)
Uppers == <<"A","B","C","D","E","F","G","H","I","J","K","L","M",
            "N","O","P","Q","R","S","T","U","V","W","X","Y","Z">>
Lowers == <<"a","b","c","d","e","f","g","h","i","j","k","l","m",
            "n","o","p","q","r","s","t","u","v","w","x","y","z">>
Digits == <<"0","1","2","3","4","5","6","7","8","9">>

Range(s) == {s[i] : i \in 1..Len(s)}
MinOf(S) == CHOOSE x \in S : \A y \in S : x <= y
MaxOf(S) == CHOOSE x \in S : \A y \in S : x >= y

UpperSet == Range(Uppers)
LowerSet == Range(Lowers)
DigitSet == Range(Digits)
SpaceSet == {" ", "\t", "\n"}

IsUpper(c) == c \in UpperSet
IsLower(c) == c \in LowerSet
IsDigit(c) == c \in DigitSet
\* \s of a JavaScript regular expression, and the characters trim() strips
IsSpace(c) == c \in SpaceSet
\* \w of a JavaScript regular expression: [A-Za-z0-9_]
IsWord(c)  == IsUpper(c) \/ IsLower(c) \/ IsDigit(c) \/ c = "_"

LowerOf == [c \in UpperSet |-> Lowers[CHOOSE i \in 1..26 : Uppers[i] = c]]

LowerChar(c) == IF IsUpper(c) THEN LowerOf[c] ELSE c

toLowerCase(s) == [i \in 1..Len(s) |-> LowerChar(s[i])]

\* s.trim(): s without its leading and trailing white space
trim(s) ==
  LET keep == {i \in 1..Len(s) : ~IsSpace(s[i])}
  IN  IF keep = {} THEN <<>> ELSE SubSeq(s, MinOf(keep), MaxOf(keep))

\* s.includes(w)
includes(s, w) ==
  \E i \in 1..(Len(s) - Len(w) + 1) : SubSeq(s, i, i + Len(w) - 1) = w

\* s.split(sep)[n] for a one-character separator; "undefined" past the end
SplitAt(s, sep, n) ==
  LET cuts  == {i \in 1..Len(s) : s[i] = sep}
      bound == [k \in 0..(Cardinality(cuts) + 1) |->
                  IF k = 0 THEN 0
                  ELSE IF k = Cardinality(cuts) + 1 THEN Len(s) + 1
                  ELSE CHOOSE i \in cuts : Cardinality({j \in cuts : j < i}) = k - 1]
  IN  IF n > Cardinality(cuts) + 1
        THEN [k |-> "undefined", s |-> <<>>]
        ELSE [k |-> "string", s |-> SubSeq(s, bound[n - 1] + 1, bound[n] - 1)]

(***************************************************************************)
(* Numbers: parseInt(str, 10), Number.isNaN, toString, padStart.           *)
(* A value is a number, NaN or undefined.                                  *)
(***************************************************************************)
NaN       == [k |-> "nan", v |-> 0]
Undefined == [k |-> "undefined", v |-> 0]
Num(n)    == [k |-> "num", v |-> n]

ValueOf == [c \in DigitSet |-> (CHOOSE i \in 1..10 : Digits[i] = c) - 1]

DigitVal(c) == ValueOf[c]

RECURSIVE DigitsToNat(_)
DigitsToNat(ds) ==
  IF ds = <<>> THEN 0
  ELSE 10 * DigitsToNat(SubSeq(ds, 1, Len(ds) - 1)) + DigitVal(ds[Len(ds)])

\* parseInt: skip leading white space, an optional sign, then the longest
\* run of digits; anything after it is ignored; no digit at all gives NaN
parseInt(str) ==
  LET nonsp  == {i \in 1..Len(str) : ~IsSpace(str[i])}
      s      == IF nonsp = {} THEN <<>> ELSE SubSeq(str, MinOf(nonsp), Len(str))
      signed == s # <<>> /\ s[1] \in {"+", "-"}
      body   == IF signed THEN Tail(s) ELSE s
      stop   == {i \in 1..Len(body) : ~IsDigit(body[i])}
      n      == IF stop = {} THEN Len(body) ELSE MinOf(stop) - 1
      mag    == DigitsToNat(SubSeq(body, 1, n))
  IN  IF n = 0 THEN NaN
      ELSE Num(IF signed /\ s[1] = "-" THEN 0 - mag ELSE mag)

\* Number.isNaN(x): true of NaN only, false of undefined
NumberIsNaN(x) == x.k = "nan"

\* x < n and x > n of JavaScript: false when x is NaN or undefined
Lt(x, n) == x.k = "num" /\ x.v < n
Gt(x, n) == x.k = "num" /\ x.v > n

RECURSIVE NatToStr(_)
NatToStr(n) ==
  IF n < 10 THEN <<Digits[n + 1]>>
  ELSE NatToStr(n \div 10) \o <<Digits[(n % 10) + 1]>>

\* s.padStart(w, "0")
RECURSIVE padStart(_, _)
padStart(s, w) == IF Len(s) >= w THEN s ELSE padStart(<<"0">> \o s, w)

(***************************************************************************)
(* generateSlug                                                            *)
(***************************************************************************)
IsSep(c) == IsSpace(c) \/ c = "_" \/ c = "-"

\* .replace(/[\s_-]+/g, "-"): every maximal run of separators becomes one "-"
RECURSIVE CollapseSeps(_)
CollapseSeps(s) ==
  IF s = <<>> THEN <<>>
  ELSE IF IsSep(s[1])
         THEN IF Len(s) > 1 /\ IsSep(s[2])
                THEN CollapseSeps(Tail(s))
                ELSE <<"-">> \o CollapseSeps(Tail(s))
         ELSE <<s[1]>> \o CollapseSeps(Tail(s))

\* .replace(/^-+|-+$/g, ""): leading and trailing hyphens removed
StripHyphens(s) ==
  LET keep == {i \in 1..Len(s) : s[i] # "-"}
  IN  IF keep = {} THEN <<>> ELSE SubSeq(s, MinOf(keep), MaxOf(keep))

\* what .replace(/[^\w\s-]/g, "") leaves in place
SlugKeeps(c) == IsWord(c) \/ IsSpace(c) \/ c = "-"

\* generateSlug without its last replace
generateSlugNoStrip(title) ==
  CollapseSeps(SelectSeq(trim(toLowerCase(title)), SlugKeeps))

generateSlug(title) ==
  LET lowered   == trim(toLowerCase(title))
      stripped  == SelectSeq(lowered, SlugKeeps)
      collapsed == CollapseSeps(stripped)
  IN  StripHyphens(collapsed)

(***************************************************************************)
(* normalizeTime.  A result is the returned string or the error thrown.    *)
(***************************************************************************)
Returned(s) == [err |-> "none", val |-> s]
Thrown(e)   == [err |-> e, val |-> <<>>]
\* the function has not been applied yet
Pending     == [err |-> "pending", val |-> <<>>]

\* `${hours.toString().padStart(2, "0")}:${minutes.toString().padStart(2, "0")}`
\* minutes.toString() on undefined throws a TypeError
FormatHM(hours, minutes) ==
  IF minutes.k = "undefined" THEN Thrown("TypeError")
  ELSE Returned(padStart(NatToStr(hours.v), 2) \o <<":">>
                  \o padStart(NatToStr(minutes.v), 2))

\* cleanTime.split(/\s*(am|pm)\s*/): the text before the leftmost match and
\* the marker the match captured
MarkerAt(s, i) == i + 1 <= Len(s) /\ s[i] \in {"a", "p"} /\ s[i + 1] = "m"

SplitMarker(s) ==
  LET k     == MinOf({i \in 1..Len(s) : MarkerAt(s, i)})
      nonsp == {i \in 1..(k - 1) : ~IsSpace(s[i])}
      cut   == IF nonsp = {} THEN 0 ELSE MaxOf(nonsp)
  IN  [timePart |-> SubSeq(s, 1, cut), period |-> SubSeq(s, k, k + 1)]

\* timePart.split(":").map((num) => parseInt(num, 10)), destructured
ParsePart(timePart, n) ==
  LET piece == SplitAt(timePart, ":", n)
  IN  IF piece.k = "undefined" THEN Undefined ELSE parseInt(piece.s)

\* the 12-hour branch after the range test: hours += 12, or hours = 0
To24(hours, period) ==
  IF period = <<"p","m">> /\ hours.v # 12 THEN Num(hours.v + 12)
  ELSE IF period = <<"a","m">> /\ hours.v = 12 THEN Num(0)
  ELSE hours

\* the range test of the 12-hour branch, then the result
Format12(hours, minutes, period) ==
  IF NumberIsNaN(hours) \/ NumberIsNaN(minutes)
     \/ Lt(hours, 1) \/ Gt(hours, 12)
     \/ Lt(minutes, 0) \/ Gt(minutes, 59)
    THEN Thrown("InvalidTimeFormat")
    ELSE FormatHM(To24(hours, period), minutes)

\* the range test of the 24-hour branch, then the result
Format24(hours, minutes) ==
  IF NumberIsNaN(hours) \/ NumberIsNaN(minutes)
     \/ Lt(hours, 0) \/ Gt(hours, 23)
     \/ Lt(minutes, 0) \/ Gt(minutes, 59)
    THEN Thrown("InvalidTimeFormat")
    ELSE FormatHM(hours, minutes)

Time12(sp) ==
  Format12(ParsePart(sp.timePart, 1), ParsePart(sp.timePart, 2), sp.period)

Time24(cleanTime) ==
  Format24(ParsePart(cleanTime, 1), ParsePart(cleanTime, 2))

\* the body of normalizeTime after cleanTime is computed
CleanTime(cleanTime) ==
  IF includes(cleanTime, <<"a","m">>) \/ includes(cleanTime, <<"p","m">>)
    THEN Time12(SplitMarker(cleanTime))
    ELSE Time24(cleanTime)

normalizeTime(timeString) == CleanTime(toLowerCase(trim(timeString)))

(***************************************************************************)
(* normalizeDate.  new Date(dateString) is modelled for the ISO-8601 forms *)
(* of the ECMAScript Date Time String Format: a date YYYY-MM-DD, a date    *)
(* with an expanded year (sign and six digits), and either followed by     *)
(* THH:mmZ.  Any other text is an Invalid Date (its time value is NaN).    *)
(***************************************************************************)
AllDigits(s, i, j) == \A n \in i..j : IsDigit(s[n])

IsLeap(y) == (y % 4 = 0 /\ y % 100 # 0) \/ y % 400 = 0

DaysInMonth(y, m) ==
  IF m = 2 THEN (IF IsLeap(y) THEN 29 ELSE 28)
  ELSE IF m \in {4, 6, 9, 11} THEN 30 ELSE 31

InvalidDate == [valid |-> FALSE, y |-> 0, mo |-> 0, d |-> 0, h |-> 0, mi |-> 0]

NewDate(s) ==
  LET expanded == s # <<>> /\ s[1] \in {"+", "-"}
      yl       == IF expanded THEN 7 ELSE 4
      dateLen  == yl + 6
      hasTime  == Len(s) = dateLen + 7
      shape    == /\ Len(s) \in {dateLen, dateLen + 7}
                  /\ AllDigits(s, (IF expanded THEN 2 ELSE 1), yl)
                  /\ s[yl + 1] = "-" /\ AllDigits(s, yl + 2, yl + 3)
                  /\ s[yl + 4] = "-" /\ AllDigits(s, yl + 5, yl + 6)
                  /\ hasTime => /\ s[dateLen + 1] = "T"
                                /\ AllDigits(s, dateLen + 2, dateLen + 3)
                                /\ s[dateLen + 4] = ":"
                                /\ AllDigits(s, dateLen + 5, dateLen + 6)
                                /\ s[dateLen + 7] = "Z"
      mag      == DigitsToNat(SubSeq(s, (IF expanded THEN 2 ELSE 1), yl))
      y        == IF expanded /\ s[1] = "-" THEN 0 - mag ELSE mag
      mo       == DigitsToNat(SubSeq(s, yl + 2, yl + 3))
      d        == DigitsToNat(SubSeq(s, yl + 5, yl + 6))
      h        == IF hasTime THEN DigitsToNat(SubSeq(s, dateLen + 2, dateLen + 3)) ELSE 0
      mi       == IF hasTime THEN DigitsToNat(SubSeq(s, dateLen + 5, dateLen + 6)) ELSE 0
  IN  IF ~shape THEN InvalidDate
      ELSE IF (expanded /\ s[1] = "-" /\ mag = 0)
              \/ mo < 1 \/ mo > 12 \/ d < 1 \/ d > DaysInMonth(y, mo)
              \/ h > 23 \/ mi > 59
        THEN InvalidDate
      ELSE [valid |-> TRUE, y |-> y, mo |-> mo, d |-> d, h |-> h, mi |-> mi]

\* Date.prototype.toISOString: a four-digit year from 0 to 9999, otherwise
\* the expanded year, a sign and six digits
toISOString(date) ==
  LET year == IF date.y >= 0 /\ date.y <= 9999
                THEN padStart(NatToStr(date.y), 4)
              ELSE IF date.y < 0
                THEN <<"-">> \o padStart(NatToStr(0 - date.y), 6)
              ELSE <<"+">> \o padStart(NatToStr(date.y), 6)
  IN  year \o <<"-">> \o padStart(NatToStr(date.mo), 2)
           \o <<"-">> \o padStart(NatToStr(date.d), 2)
           \o <<"T">> \o padStart(NatToStr(date.h), 2)
           \o <<":">> \o padStart(NatToStr(date.mi), 2)
           \o <<":", "0", "0", ".", "0", "0", "0", "Z">>

normalizeDate(dateString) ==
  LET date == NewDate(dateString)
  IN  IF ~date.valid THEN Thrown("InvalidDateFormat")
      ELSE Returned(SplitAt(toISOString(date), "T", 1).s)

(***************************************************************************)
(* Bounds and request names.                                               *)
(***************************************************************************)
MaxEvents    == 1   \* Event documents constructed, beside Booking requests
MaxBookings  == 2   \* Booking documents constructed
MaxEventDocs == 2   \* Event documents constructed, in the Event specifications
MaxTitleLen  == 4   \* length of a title given to generateSlug

Procs == {"r1", "r2"}   \* concurrent requests

\* the documents of a slot that holds none
NoEvent == [title |-> <<>>, slug |-> <<>>, date |-> <<>>, time |-> <<>>,
            agenda |-> <<>>, tags |-> <<>>]
NoBooking == [eventId |-> 0, email |-> <<>>]

\* a request slot: op is the operation it runs, pc where it stands
Idle(doc) ==
  [op |-> "none", pc |-> "idle", isNew |-> FALSE, id |-> 0, doc |-> doc,
   mod |-> {}, raw |-> <<>>, found |-> "none", errs |-> {}, ans |-> FALSE]

\* a request slot runs one operation at a time; a finished one is free again
Free(p) == eproc[p].pc \in {"idle", "done"} /\ bproc[p].pc \in {"idle", "done"}

Update(f, id, doc) == [i \in DOMAIN f \cup {id} |-> IF i = id THEN doc ELSE f[i]]
Remove(f, id)      == [i \in DOMAIN f \ {id} |-> f[i]]

(***************************************************************************)
(* Event schema: setters, validators, pre-save hook, unique slug index.    *)
(***************************************************************************)
EventPaths == {"title", "date", "time", "agenda", "tags"}

\* title: { trim: true }
TitleSetter(v) == trim(v)
\* slug: { lowercase: true }
SlugSetter(v) == toLowerCase(v)

\* new Event(cand), or a loaded document with the paths of mod assigned
EventAssign(doc, mod, cand) ==
  [title  |-> IF "title" \in mod THEN TitleSetter(cand.title) ELSE doc.title,
   slug   |-> doc.slug,
   date   |-> IF "date" \in mod THEN cand.date ELSE doc.date,
   time   |-> IF "time" \in mod THEN cand.time ELSE doc.time,
   agenda |-> IF "agenda" \in mod THEN cand.agenda ELSE doc.agenda,
   tags   |-> IF "tags" \in mod THEN cand.tags ELSE doc.tags]

\* schema validation without the validators of agenda and tags
EventValidateNoLists(doc) ==
  IF doc.title = <<>> \/ doc.date = <<>> \/ doc.time = <<>>
    THEN {"Required"} ELSE {}

\* schema validation, which mongoose runs before the pre-save hooks:
\* required strings are not empty, the agenda and tags validators hold
EventValidate(doc) ==
  (IF doc.title = <<>> \/ doc.date = <<>> \/ doc.time = <<>>
     THEN {"Required"} ELSE {})
  \cup (IF Len(doc.agenda) > 0 /\ Len(doc.tags) > 0
          THEN {} ELSE {"EmptyRequiredList"})

\* the hook so far: the document and the error thrown, if any
Passed(doc)      == [doc |-> doc, errs |-> {}]
Failed(doc, err) == [doc |-> doc, errs |-> {err}]

\* if (this.isModified("title") || this.isNew) this.slug = generateSlug(...)
HookSlug(doc, isNew, mod) ==
  IF "title" \in mod \/ isNew
    THEN [doc EXCEPT !.slug = SlugSetter(generateSlug(doc.title))]
    ELSE doc

\* this.date = normalizeDate(this.date), which may throw
SetDate(doc, nd) ==
  IF nd.err # "none" THEN Failed(doc, nd.err)
  ELSE Passed([doc EXCEPT !.date = nd.val])

HookDate(doc, isNew, mod) ==
  IF "date" \in mod \/ isNew THEN SetDate(doc, normalizeDate(doc.date))
  ELSE Passed(doc)

\* this.time = normalizeTime(this.time), which may throw
SetTime(doc, nt) ==
  IF nt.err # "none" THEN Failed(doc, nt.err)
  ELSE Passed([doc EXCEPT !.time = nt.val])

HookTime(st, isNew, mod) ==
  IF st.errs # {} THEN st
  ELSE IF "time" \in mod \/ isNew THEN SetTime(st.doc, normalizeTime(st.doc.time))
  ELSE st

\* if (this.agenda.length === 0) throw; if (this.tags.length === 0) throw
HookLists(st) ==
  IF st.errs # {} THEN st
  ELSE IF Len(st.doc.agenda) = 0 THEN Failed(st.doc, "EmptyRequiredList")
  ELSE IF Len(st.doc.tags) = 0 THEN Failed(st.doc, "EmptyRequiredList")
  ELSE st

\* EventSchema.pre("save"): the document as the hook leaves it and the error
\* it passes to next(), if any
EventPreSave(doc, isNew, mod) ==
  HookLists(HookTime(HookDate(HookSlug(doc, isNew, mod), isNew, mod), isNew, mod))

\* doc.save() up to the storage round trip: validation, then the hook
EventPrepare(doc, isNew, mod) ==
  LET verrs == EventValidate(doc)
  IN  IF verrs # {} THEN [doc |-> doc, errs |-> verrs]
      ELSE EventPreSave(doc, isNew, mod)

\* the slug index without unique
SlugConflictOff(id, slug) == FALSE

\* EventSchema.index({ slug: 1 }, { unique: true }): would storing slug
\* under _id id collide with another document?
SlugConflict(id, slug) ==
  \E j \in DOMAIN events : j # id /\ events[j].slug = slug

\* a save that goes on to the storage round trip whatever r holds
EventSlotWrites(r, isNew, id, mod) ==
  [op |-> "save", pc |-> "write",
   isNew |-> isNew, id |-> id, doc |-> r.doc, mod |-> mod,
   raw |-> <<>>, found |-> "none", errs |-> r.errs, ans |-> FALSE]

\* the request slot of a save that has run validation and the hook with
\* result r: it goes on to the storage round trip unless r holds an error
EventSlot(r, isNew, id, mod) ==
  [op |-> "save", pc |-> IF r.errs = {} THEN "write" ELSE "done",
   isNew |-> isNew, id |-> id, doc |-> r.doc, mod |-> mod,
   raw |-> <<>>, found |-> "none", errs |-> r.errs, ans |-> FALSE]

\* Event.create(cand): construct with a fresh _id, validate, run the hook
EventSaveNew(p, cand) ==
  /\ Free(p)
  /\ eproc' = [eproc EXCEPT ![p] =
       EventSlot(EventPrepare(EventAssign(NoEvent, EventPaths, cand), TRUE, EventPaths),
                 TRUE, oid.ev + 1, EventPaths \cup {"slug"})]
  /\ bproc' = [bproc EXCEPT ![p] = Idle(NoBooking)]
  /\ oid' = [oid EXCEPT !.ev = @ + 1]
  /\ UNCHANGED <<events, bookings, fin, fout, db>>

\* a stored Event loaded, the paths of mod assigned from cand, then save():
\* the hook assigns slug when the title is modified
EventSaveExisting(p, id, mod, cand) ==
  /\ Free(p)
  /\ id \in DOMAIN events
  /\ eproc' = [eproc EXCEPT ![p] =
       EventSlot(EventPrepare(EventAssign(events[id], mod, cand), FALSE, mod),
                 FALSE, id, mod \cup (IF "title" \in mod THEN {"slug"} ELSE {}))]
  /\ bproc' = [bproc EXCEPT ![p] = Idle(NoBooking)]
  /\ UNCHANGED <<events, bookings, oid, fin, fout, db>>

\* the stored document after $set of the modified paths
EventPatch(cur, doc, mod) ==
  [title  |-> IF "title" \in mod THEN doc.title ELSE cur.title,
   slug   |-> IF "slug" \in mod THEN doc.slug ELSE cur.slug,
   date   |-> IF "date" \in mod THEN doc.date ELSE cur.date,
   time   |-> IF "time" \in mod THEN doc.time ELSE cur.time,
   agenda |-> IF "agenda" \in mod THEN doc.agenda ELSE cur.agenda,
   tags   |-> IF "tags" \in mod THEN doc.tags ELSE cur.tags]

\* the storage round trip of save(): insertOne for a new document, updateOne
\* of the modified paths otherwise; the unique index rejects an equal slug
EventWrite(p) ==
  LET e == eproc[p]
      finish(errs) == eproc' = [eproc EXCEPT ![p].pc = "done", ![p].errs = errs]
  IN  /\ e.pc = "write"
      /\ IF ~e.isNew /\ e.id \notin DOMAIN events
           THEN finish({"DocumentNotFound"}) /\ UNCHANGED events
         ELSE IF "slug" \in e.mod /\ SlugConflict(e.id, e.doc.slug)
           THEN finish({"DuplicateSlug"}) /\ UNCHANGED events
         ELSE /\ finish({})
              /\ events' = Update(events, e.id,
                     IF e.isNew THEN e.doc
                     ELSE EventPatch(events[e.id], e.doc, e.mod))
      /\ UNCHANGED <<bookings, bproc, oid, fin, fout, db>>

\* Event.deleteOne({ _id: id }); Bookings are not cascaded
EventDelete(id) ==
  /\ id \in DOMAIN events
  /\ events' = Remove(events, id)
  /\ UNCHANGED <<bookings, eproc, bproc, oid, fin, fout, db>>

(***************************************************************************)
(* Booking schema: setters, validator, pre-save hook, compound unique      *)
(* index, hasUserBooked.  The field seen of a stored Booking is history:   *)
(* whether the lookup made when its eventId was last set found the Event.  *)
(***************************************************************************)
BookingPaths == {"eventId", "email"}

\* the email setters without lowercase
EmailSetterNoLower(v) == trim(v)

\* email: { lowercase: true, trim: true }
EmailSetter(v) == trim(toLowerCase(v))

\* /^[^\s@]+@[^\s@]+\.[^\s@]+$/.test(email)
EmailRegexTest(email) ==
  LET ats == {i \in 1..Len(email) : email[i] = "@"}
  IN  /\ \A i \in 1..Len(email) : ~IsSpace(email[i])
      /\ Cardinality(ats) = 1
      /\ \E a \in ats :
           /\ a > 1
           /\ \E d \in (a + 2)..(Len(email) - 1) : email[d] = "."

\* new Booking(...), or a loaded document with the paths of mod assigned
BookingAssign(doc, mod, eventId, email) ==
  [eventId |-> IF "eventId" \in mod THEN eventId ELSE doc.eventId,
   email   |-> IF "email" \in mod THEN EmailSetter(email) ELSE doc.email]

\* schema validation without the validator of email
BookingValidateNoFormat(doc) ==
  IF doc.email = <<>> THEN {"Required"} ELSE {}

\* schema validation, which mongoose runs before the pre-save hooks
BookingValidate(doc) ==
  IF doc.email = <<>> THEN {"Required"}
  ELSE IF ~EmailRegexTest(doc.email) THEN {"InvalidEmailFormat"}
  ELSE {}

\* the hook's first test with isNew not negated
BookingHookSkipsWrong(isNew, mod) == "eventId" \notin mod /\ isNew

\* BookingSchema.pre('save'), first statement: return next() at once
BookingHookSkips(isNew, mod) == "eventId" \notin mod /\ ~isNew

\* the hook without the test of the lookup's answer
BookingHookChecksNoEvent(doc, isNew, mod, eventExists) ==
  IF ("email" \in mod \/ isNew) /\ ~EmailRegexTest(doc.email)
    THEN {"InvalidEmailFormat"}
  ELSE {}

\* BookingSchema.pre('save') after await Event.findById(this.eventId)
BookingHookChecks(doc, isNew, mod, eventExists) ==
  IF ~eventExists THEN {"EventNotFound"}
  ELSE IF ("email" \in mod \/ isNew) /\ ~EmailRegexTest(doc.email)
    THEN {"InvalidEmailFormat"}
  ELSE {}

\* the compound index without unique
PairConflictOff(id, eventId, email) == FALSE

\* BookingSchema.index({ eventId: 1, email: 1 }, { unique: true }): would
\* storing the pair under _id id collide with another document?
PairConflict(id, eventId, email) ==
  \E j \in DOMAIN bookings :
    j # id /\ bookings[j].eventId = eventId /\ bookings[j].email = email

\* hasUserBooked matching the email as given
hasUserBookedRaw(eventId, email) ==
  \E j \in DOMAIN bookings :
    bookings[j].eventId = eventId /\ bookings[j].email = email

\* BookingSchema.statics.hasUserBooked: findOne casts the filter with the
\* schema's setters
hasUserBooked(eventId, email) ==
  \E j \in DOMAIN bookings :
    /\ bookings[j].eventId = eventId
    /\ bookings[j].email = EmailSetter(toLowerCase(email))

\* save() of a Booking up to its first storage round trip
BookingStart(p, id, doc, isNew, mod, raw) ==
  LET verrs == BookingValidate(doc)
  IN  bproc' = [bproc EXCEPT ![p] =
        [op |-> "save",
         pc |-> IF verrs # {} THEN "done"
                ELSE IF BookingHookSkips(isNew, mod) THEN "write"
                ELSE "lookup",
         isNew |-> isNew, id |-> id, doc |-> doc, mod |-> mod,
         raw |-> raw, found |-> "none", errs |-> verrs, ans |-> FALSE]]

\* Booking.create({ eventId, email })
BookingSaveNew(p, eventId, email) ==
  /\ Free(p)
  /\ BookingStart(p, oid.bk + 1,
                  BookingAssign(NoBooking, BookingPaths, eventId, email),
                  TRUE, BookingPaths, email)
  /\ eproc' = [eproc EXCEPT ![p] = Idle(NoEvent)]
  /\ oid' = [oid EXCEPT !.bk = @ + 1]
  /\ UNCHANGED <<events, bookings, fin, fout, db>>

\* a stored Booking loaded, the paths of mod assigned, then save()
BookingSaveExisting(p, id, mod, eventId, email) ==
  /\ Free(p)
  /\ id \in DOMAIN bookings
  /\ BookingStart(p, id,
                  BookingAssign([eventId |-> bookings[id].eventId,
                                 email |-> bookings[id].email],
                                mod, eventId, email),
                  FALSE, mod, IF "email" \in mod THEN email ELSE <<>>)
  /\ eproc' = [eproc EXCEPT ![p] = Idle(NoEvent)]
  /\ UNCHANGED <<events, bookings, oid, fin, fout, db>>

\* Event.findById answers and the hook runs to its end
BookingLookup(p) ==
  LET b      == bproc[p]
      exists == b.doc.eventId \in DOMAIN events
      errs   == BookingHookChecks(b.doc, b.isNew, b.mod, exists)
  IN  /\ b.pc = "lookup"
      /\ bproc' = [bproc EXCEPT ![p].pc = IF errs = {} THEN "write" ELSE "done",
                                ![p].found = IF exists THEN "yes" ELSE "no",
                                ![p].errs = errs]
      /\ UNCHANGED <<events, bookings, eproc, oid, fin, fout, db>>

\* the storage round trip of save(): insertOne for a new document, updateOne
\* of the modified paths otherwise; the unique index rejects an equal pair
BookingWrite(p) ==
  LET b   == bproc[p]
      cur == IF b.isNew THEN [eventId |-> 0, email |-> <<>>, seen |-> FALSE]
             ELSE bookings[b.id]
      new == [eventId |-> IF "eventId" \in b.mod THEN b.doc.eventId ELSE cur.eventId,
              email   |-> IF "email" \in b.mod THEN b.doc.email ELSE cur.email,
              seen    |-> IF "eventId" \in b.mod THEN b.found = "yes" ELSE cur.seen]
  IN  /\ b.pc = "write"
      /\ IF PairConflict(b.id, new.eventId, new.email)
           THEN /\ bproc' = [bproc EXCEPT ![p].pc = "done",
                                          ![p].errs = {"DuplicateBooking"}]
                /\ UNCHANGED bookings
           ELSE /\ bproc' = [bproc EXCEPT ![p].pc = "done"]
                /\ bookings' = Update(bookings, b.id, new)
      /\ UNCHANGED <<events, eproc, oid, fin, fout, db>>

\* a request calls Booking.hasUserBooked(eventId, email); ans is the answer
HasUserBookedCall(p, eventId, email) ==
  /\ Free(p)
  /\ bproc' = [bproc EXCEPT ![p] =
       [op |-> "hasUserBooked", pc |-> "done", isNew |-> FALSE, id |-> 0,
        doc |-> [eventId |-> eventId, email |-> <<>>], mod |-> {},
        raw |-> email, found |-> "none", errs |-> {},
        ans |-> hasUserBooked(eventId, email)]]
  /\ eproc' = [eproc EXCEPT ![p] = Idle(NoEvent)]
  /\ UNCHANGED <<events, bookings, oid, fin, fout, db>>

(***************************************************************************)
(* The connection cache.  A promise is named by the number of the attempt  *)
(* that made it, and so is the handle it resolves to; 0 is null.           *)
(***************************************************************************)
MaxAttempts == 3   \* calls of mongoose.connect

Clients == {"c1", "c2", "c3"}   \* callers of connectToDatabase

\* a caller: where it stands, the promise it awaits, the handle it got and
\* the state of the connection when it got it
NoCall == [pc |-> "idle", awaits |-> 0, got |-> 0, ready |-> "none"]

\* const cached = { conn: null, promise: null }; no caller, no connection
DbInit ==
  [cached   |-> [conn |-> 0, promise |-> 0],
   attempts |-> <<>>,
   ready    |-> "disconnected",
   call     |-> [c \in Clients |-> NoCall],
   dpc      |-> "idle",
   quiet    |-> FALSE]

CallFree(c) == db.call[c].pc \in {"idle", "returned", "threw"}

\* connectToDatabase with cached.conn set: return cached.conn
ReturnCached(c) ==
  [db EXCEPT !.call[c] = [pc |-> "returned", awaits |-> 0,
                          got |-> db.cached.conn, ready |-> db.ready],
             !.quiet = FALSE]

\* connectToDatabase with no cached.promise: mongoose.connect is called and
\* its promise cached, then awaited
StartAttempt(c) ==
  [db EXCEPT !.attempts = Append(@, "pending"),
             !.cached.promise = Len(db.attempts) + 1,
             !.call[c] = [pc |-> "awaiting", awaits |-> Len(db.attempts) + 1,
                          got |-> 0, ready |-> "none"],
             !.quiet = FALSE]

\* connectToDatabase with a cached.promise: await it
JoinAttempt(c) ==
  [db EXCEPT !.call[c] = [pc |-> "awaiting", awaits |-> db.cached.promise,
                          got |-> 0, ready |-> "none"],
             !.quiet = FALSE]

\* connectToDatabase() up to its return or its await
Connect(c) ==
  /\ CallFree(c)
  /\ db' = IF db.cached.conn # 0 THEN ReturnCached(c)
           ELSE IF db.cached.promise = 0 THEN StartAttempt(c)
           ELSE JoinAttempt(c)
  /\ UNCHANGED <<events, bookings, eproc, bproc, oid, fin, fout>>

\* mongoose.connect resolves and the .then handler returns the instance
ConnectSucceeds(a) ==
  /\ a \in DOMAIN db.attempts /\ db.attempts[a] = "pending"
  /\ db' = [db EXCEPT !.attempts[a] = "resolved", !.ready = "connected"]
  /\ UNCHANGED <<events, bookings, eproc, bproc, oid, fin, fout>>

\* mongoose.connect rejects and the .catch handler runs:
\* cached.promise = null; throw error
ConnectFails(a) ==
  /\ a \in DOMAIN db.attempts /\ db.attempts[a] = "pending"
  /\ db' = [db EXCEPT !.attempts[a] = "rejected", !.cached.promise = 0]
  /\ UNCHANGED <<events, bookings, eproc, bproc, oid, fin, fout>>

\* cached.conn = await cached.promise; return cached.conn
ResumeResolved(c) ==
  [db EXCEPT !.cached.conn = db.call[c].awaits,
             !.call[c] = [pc |-> "returned", awaits |-> 0,
                          got |-> db.call[c].awaits, ready |-> db.ready]]

\* catch (error) { cached.promise = null; throw error; }
ResumeRejected(c) ==
  [db EXCEPT !.cached.promise = 0,
             !.call[c] = [pc |-> "threw", awaits |-> 0,
                          got |-> 0, ready |-> "none"]]

\* the caller goes on after its await, once the promise is settled
Resume(c) ==
  /\ db.call[c].pc = "awaiting"
  /\ db.attempts[db.call[c].awaits] # "pending"
  /\ db' = IF db.attempts[db.call[c].awaits] = "resolved"
             THEN ResumeResolved(c) ELSE ResumeRejected(c)
  /\ UNCHANGED <<events, bookings, eproc, bproc, oid, fin, fout>>

\* disconnectFromDatabase() with cached.conn null: nothing is done
DisconnectNothing ==
  /\ db.dpc = "idle"
  /\ db.cached.conn = 0
  /\ db' = [db EXCEPT !.quiet = TRUE]
  /\ UNCHANGED <<events, bookings, eproc, bproc, oid, fin, fout>>

\* disconnectFromDatabase() up to await cached.conn.disconnect()
DisconnectStart ==
  /\ db.dpc = "idle"
  /\ db.cached.conn # 0
  /\ db' = [db EXCEPT !.dpc = "closing", !.ready = "disconnecting"]
  /\ UNCHANGED <<events, bookings, eproc, bproc, oid, fin, fout>>

\* disconnect() resolves: cached.conn = null; cached.promise = null
DisconnectDone ==
  /\ db.dpc = "closing"
  /\ db' = [db EXCEPT !.dpc = "idle", !.ready = "disconnected",
                      !.cached = [conn |-> 0, promise |-> 0],
                      !.quiet = TRUE]
  /\ UNCHANGED <<events, bookings, eproc, bproc, oid, fin, fout>>

\* disconnect() rejects: the error is logged and thrown again, the cache is
\* left as it is; the connection is up or down
DisconnectFails ==
  /\ db.dpc = "closing"
  /\ \E r \in {"connected", "disconnected"} :
       db' = [db EXCEPT !.dpc = "idle", !.ready = r]
  /\ UNCHANGED <<events, bookings, eproc, bproc, oid, fin, fout>>

(***************************************************************************)
(* Inputs.                                                                 *)
(***************************************************************************)
EventIds   == 1..MaxEvents
BookingIds == 1..MaxBookings

\* "A@x.io", " a@x.io", "b@x.io", "a@x"
EmailInputs ==
  { <<"A","@","x",".","i","o">>, <<" ","a","@","x",".","i","o">>,
    <<"b","@","x",".","i","o">>, <<"a","@","x">> }

Keynote == <<"Keynote">>

\* a valid Event candidate with the given title
Candidate(title) ==
  [title |-> title, date |-> <<"2","0","2","6","-","0","1","-","1","5">>,
   time |-> <<"9",":","0","5">>, agenda |-> Keynote, tags |-> <<"dev">>]

\* "Dev Day", "Hack"
PlainCandidates ==
  { Candidate(<<"D","e","v"," ","D","a","y">>), Candidate(<<"H","a","c","k">>) }

(***************************************************************************)
(* The store under concurrent Booking requests.                            *)
(***************************************************************************)
\* empty collections, no request in flight
StoreInit ==
  /\ events = <<>>
  /\ bookings = <<>>
  /\ eproc = [p \in Procs |-> Idle(NoEvent)]
  /\ bproc = [p \in Procs |-> Idle(NoBooking)]
  /\ oid = [ev |-> 0, bk |-> 0]
  /\ db = DbInit

Init ==
  /\ StoreInit
  /\ fin = <<>>
  /\ fout = Pending

\* the requests of the store: Event creations and deletions, and Booking
\* creations, on every request slot
Next ==
  \/ \E p \in Procs, cand \in PlainCandidates :
       oid.ev < MaxEvents /\ EventSaveNew(p, cand)
  \/ \E p \in Procs : EventWrite(p)
  \/ \E id \in EventIds : EventDelete(id)
  \/ \E p \in Procs, e \in EventIds, m \in EmailInputs :
       oid.bk < MaxBookings /\ BookingSaveNew(p, e, m)
  \/ \E p \in Procs : BookingLookup(p)
  \/ \E p \in Procs : BookingWrite(p)

Spec == Init /\ [][Next]_vars

(***************************************************************************)
(* Booking creations, updates and hasUserBooked calls on one request slot, *)
(* Event creations on the other, Event deletions at any time.              *)
(***************************************************************************)
NextBooking ==
  \/ \E cand \in PlainCandidates :
       oid.ev < MaxEvents /\ EventSaveNew("r2", cand)
  \/ EventWrite("r2")
  \/ \E id \in EventIds : EventDelete(id)
  \/ \E e \in EventIds, m \in EmailInputs :
       oid.bk < MaxBookings /\ BookingSaveNew("r1", e, m)
  \/ \E id \in BookingIds, mod \in SUBSET BookingPaths,
        e \in EventIds, m \in EmailInputs : BookingSaveExisting("r1", id, mod, e, m)
  \/ BookingLookup("r1")
  \/ BookingWrite("r1")
  \/ \E e \in EventIds, m \in EmailInputs : HasUserBookedCall("r1", e, m)

SpecBooking == Init /\ [][NextBooking]_vars

(***************************************************************************)
(* Event creations and title updates racing on every request slot.         *)
(***************************************************************************)
EventDocIds == 1..MaxEventDocs

\* "A b", "a-b", "C!", "!"
TitleInputs ==
  { <<"A"," ","b">>, <<"a","-","b">>, <<"C","!">>, <<"!">> }

NextEventSlug ==
  \/ \E p \in Procs, t \in TitleInputs :
       oid.ev < MaxEventDocs /\ EventSaveNew(p, Candidate(t))
  \/ \E p \in Procs, id \in EventDocIds, t \in TitleInputs :
       EventSaveExisting(p, id, {"title"}, Candidate(t))
  \/ \E p \in Procs : EventWrite(p)

SpecEventSlug == Init /\ [][NextEventSlug]_vars

(***************************************************************************)
(* Event creations and updates, one request at a time.  A candidate gives  *)
(* a value to each path in paths and keeps the default elsewhere.          *)
(***************************************************************************)
\* "2026-01-15T10:30Z", "2026-01-15", "+010000-01-01", "soon"
DateInputs ==
  { <<"2","0","2","6","-","0","1","-","1","5","T","1","0",":","3","0","Z">>,
    <<"2","0","2","6","-","0","1","-","1","5">>,
    <<"+","0","1","0","0","0","0","-","0","1","-","0","1">>,
    <<"s","o","o","n">> }

\* "2:30 PM", "14:30", "9:05", "13:00am", "9"
TimeInputs ==
  { <<"2",":","3","0"," ","P","M">>, <<"1","4",":","3","0">>,
    <<"9",":","0","5">>, <<"1","3",":","0","0","a","m">>, <<"9">> }

ListInputs == { <<>>, Keynote }

DefaultCandidate == Candidate(<<"A"," ","b">>)

CandidatesFor(paths) ==
  { [title  |-> t, date |-> d, time |-> tm, agenda |-> a, tags |-> g] :
      t  \in IF "title" \in paths THEN {<<"C","!">>} ELSE {DefaultCandidate.title},
      d  \in IF "date" \in paths THEN DateInputs ELSE {DefaultCandidate.date},
      tm \in IF "time" \in paths THEN TimeInputs ELSE {DefaultCandidate.time},
      a  \in IF "agenda" \in paths THEN ListInputs ELSE {DefaultCandidate.agenda},
      g  \in IF "tags" \in paths THEN ListInputs ELSE {DefaultCandidate.tags} }

\* creations and updates that give the date, the time and the agenda
SchedulePaths == {"date", "time", "agenda"}

NextEvent ==
  \/ \E cand \in CandidatesFor(SchedulePaths) :
       oid.ev < MaxEventDocs /\ EventSaveNew("r1", cand)
  \/ \E id \in EventDocIds, mod \in SUBSET SchedulePaths :
       \E cand \in CandidatesFor(mod) : EventSaveExisting("r1", id, mod, cand)
  \/ EventWrite("r1")

SpecEvent == Init /\ [][NextEvent]_vars

\* creations and updates that give the title, the date, the agenda and the tags
ListPaths == {"title", "date", "agenda", "tags"}

NextEventLists ==
  \/ \E cand \in CandidatesFor(ListPaths \ {"title"}) :
       oid.ev < MaxEventDocs /\ EventSaveNew("r1", cand)
  \/ \E id \in EventDocIds, mod \in SUBSET ListPaths :
       \E cand \in CandidatesFor(mod) : EventSaveExisting("r1", id, mod, cand)
  \/ EventWrite("r1")

SpecEventLists == Init /\ [][NextEventLists]_vars

(***************************************************************************)
(* Saves of both models: Booking creations and updates on one request      *)
(* slot, Event creations and updates of the date and the time on the other.*)
(***************************************************************************)
PersistPaths == {"date", "time"}

\* "b@x.io", "a@x"
PersistEmails ==
  { <<"b","@","x",".","i","o">>, <<"a","@","x">> }

NextPersist ==
  \/ \E cand \in CandidatesFor({"date", "agenda"}) :
       oid.ev < MaxEvents /\ EventSaveNew("r2", cand)
  \/ \E id \in EventIds, cand \in CandidatesFor(PersistPaths) :
       EventSaveExisting("r2", id, PersistPaths, cand)
  \/ EventWrite("r2")
  \/ \E e \in EventIds, m \in PersistEmails :
       oid.bk < MaxBookings /\ BookingSaveNew("r1", e, m)
  \/ \E id \in BookingIds, path \in BookingPaths,
        e \in EventIds, m \in PersistEmails :
       BookingSaveExisting("r1", id, {path}, e, m)
  \/ BookingLookup("r1")
  \/ BookingWrite("r1")

SpecPersist == Init /\ [][NextPersist]_vars

(***************************************************************************)
(* The connection cache under concurrent callers.                          *)
(***************************************************************************)
\* callers of connectToDatabase alone
NextConnect ==
  \/ \E c \in Clients :
       (db.cached.conn = 0 /\ db.cached.promise = 0 => Len(db.attempts) < MaxAttempts)
       /\ Connect(c)
  \/ \E a \in 1..MaxAttempts : ConnectSucceeds(a)
  \/ \E a \in 1..MaxAttempts : ConnectFails(a)
  \/ \E c \in Clients : Resume(c)

SpecConnect == Init /\ [][NextConnect]_vars

\* callers of connectToDatabase and of disconnectFromDatabase
NextDb ==
  \/ NextConnect
  \/ DisconnectNothing
  \/ DisconnectStart
  \/ DisconnectDone
  \/ DisconnectFails

SpecDb == Init /\ [][NextDb]_vars

(***************************************************************************)
(* The pure functions on bounded inputs.                                   *)
(***************************************************************************)
\* an upper-case and a lower-case letter, a digit, a space, an underscore,
\* a hyphen and a punctuation mark
TitleChars == {"A", "b", "7", " ", "_", "-", "!"}

TitleTexts == UNION {[1..n -> TitleChars] : n \in 0..MaxTitleLen}

InitSlug ==
  /\ StoreInit
  /\ fin \in TitleTexts
  /\ fout = Pending

ApplySlug ==
  /\ fout = Pending
  /\ fout' = Returned(generateSlug(fin))
  /\ UNCHANGED <<events, bookings, eproc, bproc, oid, fin, db>>

SpecSlug == InitSlug /\ [][ApplySlug]_vars

\* a time text: a prefix, an hour, a colon or none, minutes or none, a space
\* or none, a marker or none, a suffix
TimeTexts ==
  { pre \o h \o sep \o m \o sp \o mk \o suf :
      pre \in {<<>>, <<" ">>, <<"x">>},
      h   \in {<<"0">>, <<"2">>, <<"9">>, <<"1","2">>, <<"1","3">>,
               <<"2","3">>, <<"2","4">>},
      sep \in {<<":">>, <<>>},
      m   \in {<<>>, <<"0","0">>, <<"0","5">>, <<"3","0">>, <<"5","9">>,
               <<"6","0">>},
      sp  \in {<<>>, <<" ">>},
      mk  \in {<<>>, <<"a","m">>, <<"p","m">>, <<"P","M">>, <<"A","m">>},
      suf \in {<<>>, <<"x">>} }

InitTime ==
  /\ StoreInit
  /\ fin \in TimeTexts
  /\ fout = Pending

ApplyTime ==
  /\ fout = Pending
  /\ fout' = normalizeTime(fin)
  /\ UNCHANGED <<events, bookings, eproc, bproc, oid, fin, db>>

SpecTime == InitTime /\ [][ApplyTime]_vars

(***************************************************************************)
(* Properties.  NormalEmail is the normal form the properties speak of:    *)
(* lower case, no leading or trailing white space.                         *)
(***************************************************************************)
RECURSIVE LTrim(_)
LTrim(s) == IF s # <<>> /\ s[1] \in SpaceSet THEN LTrim(Tail(s)) ELSE s

RECURSIVE RTrim(_)
RTrim(s) ==
  IF s # <<>> /\ s[Len(s)] \in SpaceSet THEN RTrim(SubSeq(s, 1, Len(s) - 1)) ELSE s

NormalEmail(s) == LTrim(RTrim([i \in 1..Len(s) |-> LowerChar(s[i])]))

Booked(eventId, email) ==
  \E j \in DOMAIN bookings :
    bookings[j].eventId = eventId /\ bookings[j].email = email

\* C1: the store never holds two Bookings with the same eventId and the
\* same lower-cased, trimmed email, whatever the interleaving of creations.
C1_UniqueBooking ==
  \A i, j \in DOMAIN bookings :
    i # j => \/ bookings[i].eventId # bookings[j].eventId
             \/ NormalEmail(bookings[i].email) # NormalEmail(bookings[j].email)

\* two creations of the same pair, from different texts of the email, have
\* both passed the hook's lookup and neither has inserted yet
C1_Witness ==
  \E p, q \in Procs :
    /\ p # q
    /\ bproc[p].pc = "write" /\ bproc[q].pc = "write"
    /\ bproc[p].isNew /\ bproc[q].isNew
    /\ bproc[p].doc = bproc[q].doc
    /\ bproc[p].raw # bproc[q].raw
    /\ ~Booked(bproc[p].doc.eventId, bproc[p].doc.email)

\* C2: the insert of a creation whose normalised email equals that of a
\* persisted Booking of the same Event ends in DuplicateBooking and stores
\* nothing; so does the insert of the losing one of two concurrent creations.
C2_DuplicateRejected ==
  [][\A p \in Procs :
       (/\ BookingWrite(p)
        /\ bproc[p].isNew
        /\ Booked(bproc[p].doc.eventId, NormalEmail(bproc[p].raw)))
       => (/\ bproc'[p].pc = "done"
           /\ bproc'[p].errs = {"DuplicateBooking"}
           /\ bookings' = bookings)]_vars

\* two creations of the same pair have both finished: the one stored its
\* Booking, the other, given another text of the email, got DuplicateBooking
C2_Witness ==
  \E p, q \in Procs :
    /\ bproc[p].pc = "done" /\ bproc[p].isNew /\ bproc[p].errs = {}
    /\ bproc[q].pc = "done" /\ bproc[q].isNew
    /\ bproc[q].errs = {"DuplicateBooking"}
    /\ bproc[q].found = "yes"
    /\ bproc[p].doc = bproc[q].doc
    /\ bproc[p].raw # bproc[q].raw
    /\ bproc[p].id \in DOMAIN bookings /\ bproc[q].id \notin DOMAIN bookings

\* C3: a creation, or a save that changes eventId, whose lookup finds no
\* Event ends in EventNotFound and stores nothing; such a save reaches the
\* store only after a lookup that found the Event, so every stored Booking
\* referenced an existing Event when its eventId was last set.
C3_EventMustExist ==
  /\ \A p \in Procs :
       bproc[p].op = "save" /\ (bproc[p].isNew \/ "eventId" \in bproc[p].mod) =>
         /\ bproc[p].found = "no" =>
              /\ bproc[p].pc = "done"
              /\ bproc[p].errs = {"EventNotFound"}
              /\ bproc[p].isNew => bproc[p].id \notin DOMAIN bookings
         /\ bproc[p].pc = "write" => bproc[p].found = "yes"
         /\ bproc[p].pc = "done" /\ bproc[p].errs = {} => bproc[p].found = "yes"
  /\ \A j \in DOMAIN bookings : bookings[j].seen

\* an update that changes eventId of a stored Booking found no Event
C3_Witness ==
  \E p \in Procs :
    /\ bproc[p].op = "save" /\ ~bproc[p].isNew
    /\ "eventId" \in bproc[p].mod
    /\ bproc[p].found = "no"
    /\ bproc[p].errs = {"EventNotFound"}
    /\ bproc[p].id \in DOMAIN bookings

\* hasUserBooked agrees, on every input, with the store
HasBookedAgrees ==
  \A e \in EventIds, m \in EmailInputs :
    hasUserBooked(e, m) <=> Booked(e, NormalEmail(m))

\* C4: in every state hasUserBooked(eventId, email) is true exactly when
\* the store holds a Booking of that Event whose email is the normal form of
\* the given one; and a step that is a call answers so and leaves both
\* collections as they were.
C4_HasBooked ==
  /\ []HasBookedAgrees
  /\ [][\A p \in Procs :
          bproc'[p] # bproc[p] /\ bproc'[p].op = "hasUserBooked" =>
            /\ bproc'[p].ans = Booked(bproc'[p].doc.eventId,
                                      NormalEmail(bproc'[p].raw))
            /\ bookings' = bookings /\ events' = events]_vars

\* a call given an email that is not in normal form answered true
C4_Witness ==
  \E p \in Procs :
    /\ bproc[p].op = "hasUserBooked"
    /\ bproc[p].ans
    /\ bproc[p].raw # NormalEmail(bproc[p].raw)

\* C5: a save of a stored Booking that leaves eventId unchanged makes no
\* Event lookup and never ends in EventNotFound.
C5_NoLookupOnUpdate ==
  \A p \in Procs :
    bproc[p].op = "save" /\ ~bproc[p].isNew /\ "eventId" \notin bproc[p].mod =>
      /\ bproc[p].pc # "lookup"
      /\ bproc[p].found = "none"
      /\ "EventNotFound" \notin bproc[p].errs

\* an update of the email alone was stored although the Event the Booking
\* refers to is gone
C5_Witness ==
  \E p \in Procs :
    /\ bproc[p].op = "save" /\ ~bproc[p].isNew
    /\ bproc[p].mod = {"email"}
    /\ bproc[p].pc = "done" /\ bproc[p].errs = {}
    /\ bproc[p].id \in DOMAIN bookings
    /\ bookings[bproc[p].id].email = bproc[p].doc.email
    /\ bookings[bproc[p].id].eventId \notin DOMAIN events

\* no two stored Events have the same slug
NoDupSlug ==
  \A i, j \in DOMAIN events : i # j => events[i].slug # events[j].slug

\* C6: no two stored Events ever have the same slug, whatever the
\* interleaving of creations and title updates; and the write of a creation
\* or title update whose slug another stored Event has ends in DuplicateSlug
\* and leaves the store as it was.
C6_UniqueSlug ==
  /\ []NoDupSlug
  /\ [][\A p \in Procs :
          (/\ EventWrite(p)
           /\ "slug" \in eproc[p].mod
           /\ eproc[p].isNew \/ eproc[p].id \in DOMAIN events
           /\ \E j \in DOMAIN events :
                j # eproc[p].id /\ events[j].slug = eproc[p].doc.slug)
          => (/\ eproc'[p].pc = "done"
              /\ eproc'[p].errs = {"DuplicateSlug"}
              /\ events' = events)]_vars

\* a title update was rejected with DuplicateSlug: another stored Event,
\* with a different title, has the slug the new title derives
C6_Witness ==
  \E p \in Procs :
    /\ eproc[p].pc = "done" /\ ~eproc[p].isNew
    /\ eproc[p].errs = {"DuplicateSlug"}
    /\ eproc[p].id \in DOMAIN events
    /\ events[eproc[p].id].slug # eproc[p].doc.slug
    /\ \E j \in DOMAIN events :
         /\ j # eproc[p].id
         /\ events[j].slug = eproc[p].doc.slug
         /\ events[j].title # eproc[p].doc.title

\* C7: the slug generateSlug returns has only lower-case letters, digits and
\* hyphens, no two hyphens in a row, and no hyphen first or last.
C7_SlugShape ==
  fout.err = "none" =>
    LET slug == fout.val
    IN  /\ \A i \in 1..Len(slug) : slug[i] \in LowerSet \cup DigitSet \cup {"-"}
        /\ \A i \in 1..(Len(slug) - 1) : ~(slug[i] = "-" /\ slug[i + 1] = "-")
        /\ slug # <<>> => slug[1] # "-" /\ slug[Len(slug)] # "-"

\* a title with an upper-case letter, an underscore and a punctuation mark
\* gave a slug with a hyphen in it
C7_Witness ==
  /\ fout.err = "none"
  /\ {"A", "_", "!"} \subseteq Range(fin)
  /\ "-" \in Range(fout.val)

\* one or two digits
IsNumeral(s) == Len(s) \in {1, 2} /\ \A i \in 1..Len(s) : s[i] \in DigitSet

\* the two-digit numeral of a one- or two-digit one
TwoDigits(s) == IF Len(s) = 1 THEN <<"0">> \o s ELSE s

\* the result the two accepted shapes call for: hour, colon, minutes, then
\* either nothing or white space and a marker in any case; anything else is
\* InvalidTimeFormat.  White space around the whole text is allowed.
ExpectedTime(text) ==
  LET t       == NormalEmail(text)
      marked  == Len(t) >= 2
                   /\ SubSeq(t, Len(t) - 1, Len(t)) \in {<<"a","m">>, <<"p","m">>}
      period  == IF marked THEN SubSeq(t, Len(t) - 1, Len(t)) ELSE <<>>
      body    == IF marked THEN RTrim(SubSeq(t, 1, Len(t) - 2)) ELSE t
      colons  == {i \in 1..Len(body) : body[i] = ":"}
      c       == IF colons = {} THEN 0 ELSE MinOf(colons)
      hh      == SubSeq(body, 1, c - 1)
      mm      == SubSeq(body, c + 1, Len(body))
      shaped  == Cardinality(colons) = 1 /\ IsNumeral(hh) /\ IsNumeral(mm)
      h       == DigitsToNat(hh)
      m       == DigitsToNat(mm)
      h24     == IF ~marked THEN h
                 ELSE IF period = <<"p","m">> THEN (IF h = 12 THEN 12 ELSE h + 12)
                 ELSE (IF h = 12 THEN 0 ELSE h)
  IN  IF shaped /\ m <= 59 /\ (IF marked THEN h >= 1 /\ h <= 12 ELSE h <= 23)
        THEN Returned(TwoDigits(NatToStr(h24)) \o <<":">> \o TwoDigits(mm))
      ELSE Thrown("InvalidTimeFormat")

\* C8: normalizeTime returns the zero-padded 24-hour time of a text of one
\* of the two shapes, and fails with InvalidTimeFormat on every other text.
C8_TimeShapes ==
  fout.err # "pending" => fout = ExpectedTime(fin)

\* a date of four digits, two digits and two digits, hyphens between
MatchesYMD(s) ==
  /\ Len(s) = 10
  /\ \A i \in {1, 2, 3, 4, 6, 7, 9, 10} : s[i] \in DigitSet
  /\ s[5] = "-" /\ s[8] = "-"

\* a zero-padded 24-hour time
CanonicalTime(s) ==
  /\ Len(s) = 5
  /\ \A i \in {1, 2, 4, 5} : s[i] \in DigitSet
  /\ s[3] = ":"
  /\ DigitsToNat(SubSeq(s, 1, 2)) <= 23
  /\ DigitsToNat(SubSeq(s, 4, 5)) <= 59

\* C9: every stored Event has a date of the form dddd-dd-dd and a
\* zero-padded 24-hour time, after any creations and updates.
C9_CanonicalDateTime ==
  \A j \in DOMAIN events :
    MatchesYMD(events[j].date) /\ CanonicalTime(events[j].time)

\* the lists of a document are both non-empty
ListsFilled(doc) == Len(doc.agenda) > 0 /\ Len(doc.tags) > 0

\* C10: every stored Event has an agenda item and a tag; a save, new or not
\* and whatever it changes, of a document whose agenda or tags is empty ends
\* in EmptyRequiredList without reaching the store; and a creation with both
\* lists filled and a valid date and time ends without a validation error and,
\* unless its slug is taken, is stored.
C10_NonEmptyLists ==
  /\ \A j \in DOMAIN events : ListsFilled(events[j])
  /\ \A p \in Procs :
       eproc[p].op = "save" =>
         /\ ~ListsFilled(eproc[p].doc) =>
              /\ eproc[p].pc = "done"
              /\ "EmptyRequiredList" \in eproc[p].errs
              /\ eproc[p].isNew => eproc[p].id \notin DOMAIN events
         /\ (/\ eproc[p].isNew /\ eproc[p].pc = "done"
             /\ ListsFilled(eproc[p].doc)
             /\ normalizeDate(eproc[p].doc.date).err = "none"
             /\ normalizeTime(eproc[p].doc.time).err = "none")
            => \/ eproc[p].errs = {"DuplicateSlug"}
               \/ eproc[p].errs = {} /\ eproc[p].id \in DOMAIN events

\* an update that gave a stored Event an empty agenda and a date that does
\* not parse ended in EmptyRequiredList, and the stored Event kept its agenda
C10_Witness ==
  \E p \in Procs :
    /\ eproc[p].op = "save" /\ ~eproc[p].isNew /\ eproc[p].pc = "done"
    /\ {"date", "agenda"} \subseteq eproc[p].mod
    /\ eproc[p].doc.agenda = <<>>
    /\ normalizeDate(eproc[p].doc.date).err = "InvalidDateFormat"
    /\ eproc[p].errs = {"EmptyRequiredList"}
    /\ eproc[p].id \in DOMAIN events
    /\ ListsFilled(events[eproc[p].id])

\* the errors of the storage round trip; every other error is a validation
\* error, raised by the schema validators or by a pre-save hook
StorageErrors == {"DuplicateSlug", "DuplicateBooking", "DocumentNotFound"}

\* the save in slot has failed validation
Rejected(slot) == slot.op = "save" /\ slot.errs \ StorageErrors # {}

\* a rejected save is at its end and, if it is a creation, its document is
\* not in the store
RejectedNotStored ==
  \A p \in Procs :
    /\ Rejected(eproc[p]) =>
         /\ eproc[p].pc = "done"
         /\ eproc[p].isNew => eproc[p].id \notin DOMAIN events
    /\ Rejected(bproc[p]) =>
         /\ bproc[p].pc = "done"
         /\ bproc[p].isNew => bproc[p].id \notin DOMAIN bookings

\* C11: a save of an Event or a Booking that fails validation ends there,
\* and no step of it changes the store: the step that rejects it leaves both
\* collections as they were and a rejected creation's document is in neither.
C11_RejectedLeavesStore ==
  /\ []RejectedNotStored
  /\ [][\A p \in Procs :
          (\/ eproc'[p] # eproc[p] /\ Rejected(eproc'[p])
           \/ bproc'[p] # bproc[p] /\ Rejected(bproc'[p]))
          => events' = events /\ bookings' = bookings]_vars

\* an update of a stored Event was rejected for its time after its new date
\* had been normalised, and the stored Event kept its date; and a Booking
\* creation was rejected with EventNotFound
C11_Witness ==
  /\ eproc["r2"].op = "save" /\ ~eproc["r2"].isNew
  /\ eproc["r2"].errs = {"InvalidTimeFormat"}
  /\ eproc["r2"].id \in DOMAIN events
  /\ events[eproc["r2"].id].date # eproc["r2"].doc.date
  /\ bproc["r1"].op = "save" /\ bproc["r1"].isNew
  /\ bproc["r1"].errs = {"EventNotFound"}

\* one or more characters, none of them white space or "@"
IsEmailPart(s) ==
  s # <<>> /\ \A i \in 1..Len(s) : s[i] \notin SpaceSet \cup {"@"}

\* a part, "@", a part, ".", a part
MatchesEmail(s) ==
  \E a, d \in 1..Len(s) :
    /\ a < d /\ s[a] = "@" /\ s[d] = "."
    /\ IsEmailPart(SubSeq(s, 1, a - 1))
    /\ IsEmailPart(SubSeq(s, a + 1, d - 1))
    /\ IsEmailPart(SubSeq(s, d + 1, Len(s)))

InFlight == {a \in DOMAIN db.attempts : db.attempts[a] = "pending"}

\* C13: at most one connection establishment is in flight at any time, and
\* all callers waiting during an establishment wait for the same one, under
\* any interleaving of connectToDatabase calls.
C13_SingleFlight ==
  /\ Cardinality(InFlight) <= 1
  /\ \A c, d \in Clients :
       (/\ db.call[c].pc = "awaiting" /\ db.call[c].awaits \in InFlight
        /\ db.call[d].pc = "awaiting" /\ db.call[d].awaits \in InFlight)
       => db.call[c].awaits = db.call[d].awaits

\* nothing of connectToDatabase or disconnectFromDatabase is still running
Settled ==
  /\ InFlight = {}
  /\ db.dpc = "idle"
  /\ \A c \in Clients : db.call[c].pc # "awaiting"

\* C14: connectToDatabase returns a handle only while its connection is up,
\* never one that disconnectFromDatabase is tearing down or has torn down;
\* and once disconnectFromDatabase has completed, with no connectToDatabase
\* call after it and nothing still running, there is no live connection, no
\* cached handle and no cached promise.
C14_SafeDisconnect ==
  /\ \A c \in Clients :
       db.call[c].pc = "returned" => db.call[c].ready = "connected"
  /\ db.quiet /\ Settled =>
       /\ db.ready = "disconnected"
       /\ db.cached.conn = 0
       /\ db.cached.promise = 0

====
